---- MODULE Spec2Model ----
(***************************************************************************)
(* BAssist: the client-side conversational session controller (the chat   *)
(* and study-buddy pages) and the chat-history store (ChatHistoryContext)  *)
(* it commits finished exchanges to.                                       *)
(*                                                                         *)
(* Rendering: a React state update made by a handler is visible to the     *)
(* next handler (React renders between two browser events), so a handler's *)
(* closure holds the state current at the time it is invoked.  What an     *)
(* async handler captured before its await stays as captured: the call     *)
(* record below keeps those captured values.                               *)
(*                                                                         *)
(* Text is a TLA+ string; the Vietnamese literals of the source are        *)
(* written without diacritics.                                             *)
(***************************************************************************)
EXTENDS Integers, Sequences, FiniteSets

VARIABLES
  messages,      \* page state: the live transcript            [feature -> Seq(Message)]
  input,         \* page state: the text box                   [feature -> STRING]
  files,         \* page state: number of staged attachments   [feature -> Nat]
  loading,       \* page state: the pending indicator          [feature -> BOOLEAN]
  error,         \* page state: the inline error message       [feature -> STRING]
  abortRef,      \* abortControllerRef.current: 0 is null, else the id of the
                 \* handleSend invocation that created the controller
  aborted,       \* ids of the AbortControllers whose signal is aborted
  calls,         \* handleSend invocations suspended at an await [feature -> set of call records]
  nSubmits,      \* handleSend invocations that went past validation, per feature
  histories,     \* ChatHistoryProvider state: feature -> list of ChatHistory, newest first
  isHydrated,    \* ChatHistoryProvider state
  localStorage,  \* the value under the key "chatHistories"
  now,           \* Date.now()
  pathname,      \* the route whose page is mounted
  nStoreOps,     \* direct calls of the store's operations made so far
  addCalls,      \* addHistory invocations made by each page
  crashed,       \* a render threw: React has unmounted the tree
  showLongLoadingWarning,  \* page state of Chat; the study-buddy page has none  [feature -> BOOLEAN]
  loadingTimeout,          \* loadingTimeoutRef: milliseconds until the timer fires, or NoTimeout
  pendingMs,               \* milliseconds loading has been true, up to LongLoadingDelay
  advancedMode,            \* page state of Chat: the mode that shows the file controls
  factCheck,               \* page state of FactCheck: the claim and the number of staged files
  storageCalls             \* calls of localStorage the provider made: the getItem calls, and
                           \* the values setItem wrote while isHydrated was false

timerVars == <<showLongLoadingWarning, loadingTimeout, pendingMs>>
pageVars  == <<messages, input, files, loading, error, abortRef, aborted, calls, nSubmits,
               pathname, timerVars, advancedMode, factCheck>>
storeVars == <<histories, isHydrated, localStorage>>
vars      == <<messages, input, files, loading, error, abortRef, aborted, calls, nSubmits,
               histories, isHydrated, localStorage, now, pathname,
               nStoreOps, addCalls, crashed, showLongLoadingWarning, loadingTimeout, pendingMs,
               advancedMode, factCheck, storageCalls>>

----------------------------------------------------------------------------
(* Bounds of the model *)

MaxSubmits  == 2   \* handleSend invocations past validation, over both pages
MaxFiles    == 1   \* staged attachments per page explored
MaxTicks    == 1   \* milliseconds the clock advances
MaxStoreOps == 3   \* direct calls of the store's operations
MaxSidebarOps == 1 \* delete and clear clicks in the history sidebar
NumStored   == 19  \* records of the "chat" feature in the persisted blob
ElapseStep  == 5000 \* milliseconds by which the time of the timers advances

(* Program constants *)

MaxHistories  == 20   \* .slice(0, 20)
TitleLength   == 30   \* substring(0, 30)
PreviewLength == 50   \* substring(0, 50)
LongLoadingDelay == 15000 \* setTimeout(..., 15000)

\* loadingTimeoutRef holds no running timer
NoTimeout == -1

\* the limit of the staged files of a page
MaxStagedFiles == 10

\* files chosen in one file dialog
MaxSelected == 2

Features == {"chat", "study-buddy"}

----------------------------------------------------------------------------
(* Strings *)

Min(a, b) == IF a <= b THEN a ELSE b

\* String.prototype.substring(0, end)
Substring(s, end) == IF Len(s) <= end THEN s ELSE SubSeq(s, 1, end)

CharAt(s, i) == SubSeq(s, i, i)

RECURSIVE TrimStart(_)
TrimStart(s) ==
  IF Len(s) > 0 /\ CharAt(s, 1) = " " THEN TrimStart(SubSeq(s, 2, Len(s))) ELSE s

RECURSIVE TrimEnd(_)
TrimEnd(s) ==
  IF Len(s) > 0 /\ CharAt(s, Len(s)) = " " THEN TrimEnd(SubSeq(s, 1, Len(s) - 1)) ELSE s

\* String.prototype.trim()
Trim(s) == TrimEnd(TrimStart(s))

\* Number.prototype.toString() of a non-negative integer
RECURSIVE ToString(_)
ToString(n) ==
  IF n < 10 THEN CharAt("0123456789", n + 1)
  ELSE ToString(n \div 10) \o CharAt("0123456789", (n % 10) + 1)

\* the value of a property the object does not have
Undefined == "<undefined>"

\* JavaScript truthiness of a string-or-undefined value
Truthy(v) == v # Undefined /\ v # ""

----------------------------------------------------------------------------
(* Messages and transcripts *)

Message(role, content) == [role |-> role, content |-> content]

T35 == "0123456789012345678901234567890123Z"
T60 == "012345678901234567890123456789012345678901234567890123456789"

\* texts the user types
Texts == {"", " ", "hi"}

\* the greeting each page starts with
Greeting(f) ==
  IF f = "chat" THEN Message("assistant", "Chao ban! Minh la BAssist")
  ELSE Message("assistant", "Hey! Minh la Study Buddy")

----------------------------------------------------------------------------
(* ChatHistoryContext *)

\* prev[feature] || []
Lookup(prev, feature) == IF feature \in DOMAIN prev THEN prev[feature] ELSE <<>>

PutWithoutSpread(prev, feature, list) == [k \in {feature} |-> list]

\* { ...prev, [feature]: list }
Put(prev, feature, list) ==
  [k \in DOMAIN prev \cup {feature} |-> IF k = feature THEN list ELSE prev[k]]

\* Array.prototype.slice(0, n)
Slice(list, n) == IF Len(list) <= n THEN list ELSE SubSeq(list, 1, n)

UserMessagesUnfiltered(msgs) == msgs

UserMessages(msgs) == SelectSeq(msgs, LAMBDA m : m.role = "user")

\* addHistory returns before setHistories
AddHistoryReturnsEarly(msgs) == Len(msgs) = 0 \/ Len(UserMessages(msgs)) = 0

PreviewOfEllipsisAtLimit(firstUserMessage) ==
  Substring(firstUserMessage, PreviewLength)
    \o (IF Len(firstUserMessage) >= PreviewLength THEN "..." ELSE "")

PreviewOf(firstUserMessage) ==
  Substring(firstUserMessage, PreviewLength)
    \o (IF Len(firstUserMessage) > PreviewLength THEN "..." ELSE "")

TitleOf(firstUserMessage) == Substring(firstUserMessage, TitleLength)

NewHistory(feature, msgs, t) ==
  LET firstUserMessage == UserMessages(msgs)[1].content
  IN  [id        |-> ToString(t),
       feature   |-> feature,
       title     |-> TitleOf(firstUserMessage),
       timestamp |-> t,
       preview   |-> PreviewOf(firstUserMessage),
       messages  |-> msgs]

PrependUnbounded(prev, feature, newHistory) ==
  Put(prev, feature, <<newHistory>> \o Lookup(prev, feature))

PrependReplacingHead(prev, feature, newHistory) ==
  Put(prev, feature,
      IF Len(Lookup(prev, feature)) = 0 THEN <<newHistory>>
      ELSE <<newHistory>> \o Tail(Lookup(prev, feature)))

\* the updater addHistory passes to setHistories
Prepend(prev, feature, newHistory) ==
  Put(prev, feature, Slice(<<newHistory>> \o Lookup(prev, feature), MaxHistories))

\* the state of the provider after addHistory(feature, msgs) at time t
AddHistory(prev, feature, msgs, t) ==
  IF AddHistoryReturnsEarly(msgs) THEN prev
  ELSE Prepend(prev, feature, NewHistory(feature, msgs, t))

\* the updater of deleteHistory
DeleteHistory(prev, feature, id) ==
  Put(prev, feature, SelectSeq(Lookup(prev, feature), LAMBDA h : h.id # id))

\* the updater of clearHistory
ClearHistory(prev, feature) == Put(prev, feature, <<>>)

\* loadHistory
FindHistory(prev, feature, id) ==
  LET found == SelectSeq(Lookup(prev, feature), LAMBDA h : h.id = id)
  IN  IF Len(found) > 0 THEN <<found[1]>> ELSE <<>>

----------------------------------------------------------------------------
(* localStorage and (de)serialization *)

\* localStorage.getItem returns null
Absent == [kind |-> "absent", value |-> <<>>]

\* text that JSON.parse rejects
Corrupt == [kind |-> "corrupt", value |-> <<>>]

\* JavaScript null: a value distinct from every mapping the program builds
Null == [null |-> <<>>]

\* reading a property of the value throws a TypeError
PropertyReadThrows(h) == h = Null

\* JSON.stringify(h): text that JSON.parse turns back into h
JSONStringify(h) == [kind |-> "json", value |-> h]

JSONParseThrows(blob) == blob.kind # "json"

JSONParse(blob) == blob.value

\* an exchange stored by an earlier run of the application
OldMessages ==
  <<Greeting("chat"), Message("user", "old question"), Message("assistant", "old answer")>>

OldRecord(i) == NewHistory("chat", OldMessages, i)

\* what an earlier run left: n records of "chat", newest first
StoredHistories(n) == [f \in {"chat"} |-> [i \in 1..n |-> OldRecord(n + 1 - i)]]

InitialBlobs ==
  {Absent, Corrupt, JSONStringify(Null), JSONStringify(<<>>),
   JSONStringify(StoredHistories(NumStored))}

\* the first effect of ChatHistoryProvider: the value of histories after mount
HydratedHistories(stored, prev) ==
  IF stored.kind = "absent" THEN prev
  ELSE IF JSONParseThrows(stored) THEN prev
  ELSE JSONParse(stored)

SaveEffectWritesAlways(hydrated) == TRUE

\* the guard of the second effect: if (isHydrated)
SaveEffectWrites(hydrated) == hydrated

SaveEffectSkipped(hydrated, hist, stored) == stored

\* the second effect of ChatHistoryProvider: the stored value after it ran
SaveEffect(hydrated, hist, stored) ==
  IF SaveEffectWrites(hydrated) THEN JSONStringify(hist) ELSE stored

----------------------------------------------------------------------------
(* Initial state and mount *)

ClockStart == NumStored + 1
MaxNow     == ClockStart + MaxTicks

InitOn(paths) ==
  /\ messages = [f \in Features |-> <<Greeting(f)>>]
  /\ input = [f \in Features |-> ""]
  /\ files = [f \in Features |-> 0]
  /\ loading = [f \in Features |-> FALSE]
  /\ error = [f \in Features |-> ""]
  /\ abortRef = [f \in Features |-> 0]
  /\ aborted = [f \in Features |-> {}]
  /\ calls = [f \in Features |-> {}]
  /\ nSubmits = [f \in Features |-> 0]
  /\ histories = <<>>
  /\ isHydrated = FALSE
  /\ localStorage \in InitialBlobs
  /\ now = ClockStart
  /\ pathname \in paths
  /\ nStoreOps = 0
  /\ addCalls = [f \in Features |-> 0]
  /\ crashed = FALSE
  /\ showLongLoadingWarning = [f \in Features |-> FALSE]
  /\ loadingTimeout = [f \in Features |-> NoTimeout]
  /\ pendingMs = [f \in Features |-> 0]
  /\ advancedMode = FALSE
  /\ factCheck = [claim |-> "", files |-> 0]
  /\ storageCalls = [getItem |-> 0, unhydratedWrites |-> <<>>]

\* the chat page or the study-buddy page is open
Init == InitOn({"/chat", "/study-buddy"})

\* The save effect runs after the render that follows an update of histories or
\* isHydrated, before the next event is handled: it is part of the step that
\* made the update.

\* the render of RightSidebar reads histories[currentFeature]
RenderThrows(h) == PropertyReadThrows(h)

\* mount of ChatHistoryProvider: both effects run, in the order they are declared,
\* with the values of the first render; the render that follows reads histories in
\* RightSidebar and, when it does not throw, runs the save effect again
Hydrate ==
  /\ ~isHydrated
  /\ histories' = HydratedHistories(localStorage, histories)
  /\ isHydrated' = TRUE
  /\ crashed' = RenderThrows(histories')
  /\ localStorage' = IF crashed' THEN SaveEffect(isHydrated, histories, localStorage)
                     ELSE SaveEffect(isHydrated', histories',
                                     SaveEffect(isHydrated, histories, localStorage))
  /\ storageCalls' =
       [getItem          |-> storageCalls.getItem + 1,
        unhydratedWrites |-> IF SaveEffectWrites(isHydrated)
                             THEN Append(storageCalls.unhydratedWrites,
                                         JSONStringify(histories))
                             ELSE storageCalls.unhydratedWrites]
  /\ UNCHANGED <<pageVars, now, nStoreOps, addCalls>>

\* the millisecond clock advances
Tick ==
  /\ now < MaxNow
  /\ now' = now + 1
  /\ UNCHANGED <<pageVars, storeVars, nStoreOps, addCalls, crashed, storageCalls>>

----------------------------------------------------------------------------
(* The store's operations, called directly *)

\* texts of the USER turn: short, the 35 characters of the specification's example,
\* and the two lengths around the limit of the preview
ApiTexts == {"hi", T35, Substring(T60, 50), Substring(T60, 51)}

LongGreeting == Message("assistant", T60 \o T60)

ApiTranscripts ==
  {<<>>, <<LongGreeting>>, <<Message("user", "first"), Message("assistant", "a"),
                             Message("user", T60)>>}
  \cup {<<LongGreeting, Message("user", t), Message("assistant", "answer")>> : t \in ApiTexts}

\* ids a caller may name: the first and the last of the list, and one not in it
IdsToTry(list) ==
  {list[i].id : i \in {j \in {1, Len(list)} : j \in 1..Len(list)}} \cup {"0"}

ApiAddHistory(f, msgs) ==
  /\ isHydrated
  /\ ~crashed
  /\ nStoreOps < MaxStoreOps
  /\ nStoreOps' = nStoreOps + 1
  /\ histories' = AddHistory(histories, f, msgs, now)
  /\ localStorage' = IF AddHistoryReturnsEarly(msgs) THEN localStorage
                     ELSE SaveEffect(isHydrated, histories', localStorage)
  /\ UNCHANGED <<pageVars, isHydrated, now, addCalls, crashed, storageCalls>>

ApiDeleteHistory(f, id) ==
  /\ isHydrated
  /\ ~crashed
  /\ nStoreOps < MaxStoreOps
  /\ nStoreOps' = nStoreOps + 1
  /\ histories' = DeleteHistory(histories, f, id)
  /\ localStorage' = SaveEffect(isHydrated, histories', localStorage)
  /\ UNCHANGED <<pageVars, isHydrated, now, addCalls, crashed, storageCalls>>

ApiClearHistory(f) ==
  /\ isHydrated
  /\ ~crashed
  /\ nStoreOps < MaxStoreOps
  /\ nStoreOps' = nStoreOps + 1
  /\ histories' = ClearHistory(histories, f)
  /\ localStorage' = SaveEffect(isHydrated, histories', localStorage)
  /\ UNCHANGED <<pageVars, isHydrated, now, addCalls, crashed, storageCalls>>

\* a call of one of the store's operations on a feature
Op(kind, msgs, id) == [kind |-> kind, msgs |-> msgs, id |-> id]

\* the calls made two in one event: addHistory, deleteHistory with the id of the
\* first record or with the id a record made now gets, and clearHistory
BatchOps(list) ==
  {Op("add", <<LongGreeting, Message("user", t), Message("assistant", "answer")>>, "") :
     t \in {"hi", T35}}
  \cup {Op("delete", <<>>, id) : id \in {list[i].id : i \in {1} \cap DOMAIN list}
                                       \cup {ToString(now)}}
  \cup {Op("clear", <<>>, "")}

\* the call reaches setHistories
CallsSetHistories(op) == op.kind = "add" => ~AddHistoryReturnsEarly(op.msgs)

\* the function the call passes to setHistories, applied to prev
Updater(op, feature, prev, t) ==
  IF op.kind = "add" THEN AddHistory(prev, feature, op.msgs, t)
  ELSE IF op.kind = "delete" THEN DeleteHistory(prev, feature, op.id)
  ELSE ClearHistory(prev, feature)

UpdateFromRendered(op, feature, prev, rendered, t) == Updater(op, feature, rendered, t)

\* the state an update queued by setHistories produces: prev is the state the
\* updates queued before it produced, rendered the state of the last render
QueuedUpdate(op, feature, prev, rendered, t) == Updater(op, feature, prev, t)

\* two operations called in one event, before any render: React runs the queued
\* updaters in order at the next render, and then the save effect
ApiBatch(f, op1, op2) ==
  /\ isHydrated
  /\ ~crashed
  /\ nStoreOps + 2 <= MaxStoreOps
  /\ nStoreOps' = nStoreOps + 2
  /\ histories' = QueuedUpdate(op2, f, QueuedUpdate(op1, f, histories, histories, now),
                               histories, now)
  /\ localStorage' = IF CallsSetHistories(op1) \/ CallsSetHistories(op2)
                     THEN SaveEffect(isHydrated, histories', localStorage)
                     ELSE localStorage
  /\ UNCHANGED <<pageVars, isHydrated, now, addCalls, crashed, storageCalls>>

NextStore ==
  \/ Hydrate
  \/ Tick
  \/ \E f \in Features, msgs \in ApiTranscripts : ApiAddHistory(f, msgs)
  \/ \E f \in Features : \E id \in IdsToTry(Lookup(histories, f)) : ApiDeleteHistory(f, id)
  \/ \E f \in Features : ApiClearHistory(f)

\* the store is driven by its operations alone, whatever page is mounted
InitStore == Init /\ pathname = "/chat"

SpecStore == InitStore /\ [][NextStore]_vars

\* the store's operations called one or two in an event
NextBatch ==
  \/ NextStore
  \/ \E f \in Features : \E op1 \in BatchOps(Lookup(histories, f)) :
       \E op2 \in BatchOps(Lookup(histories, f)) : ApiBatch(f, op1, op2)

SpecBatch == InitStore /\ [][NextBatch]_vars

----------------------------------------------------------------------------
(* The remote endpoint, as the pages see it *)

\* the parsed body of a response: text is the field the page reads
\* (response for /api/chat, summary for /api/study-buddy)
Body(kind, success, text, detail, err) ==
  [kind |-> kind, success |-> success, text |-> text, detail |-> detail, error |-> err]

BodySuccess      == Body("object", TRUE, "answer", Undefined, Undefined)
BodyFailDetail   == Body("object", FALSE, Undefined, "upstream failed", Undefined)
BodyFailError    == Body("object", FALSE, Undefined, Undefined, "quota exceeded")
BodyFailPlain    == Body("object", FALSE, Undefined, Undefined, Undefined)
BodyNull         == Body("null", FALSE, Undefined, Undefined, Undefined)
BodyUnparseable  == Body("unparseable", FALSE, Undefined, Undefined, Undefined)

Bodies ==
  {BodySuccess, BodyFailDetail, BodyFailError, BodyFailPlain, BodyNull, BodyUnparseable}

\* exceptions
Exception(name, message) == [name |-> name, message |-> message]

AbortError   == Exception("AbortError", "The user aborted a request.")
NetworkError == Exception("TypeError", "Failed to fetch")
SyntaxError  == Exception("SyntaxError", "Unexpected token < in JSON at position 0")
NullAccess   == Exception("TypeError", "Cannot read properties of null")
NoException  == Exception("", "")

----------------------------------------------------------------------------
(* The pages: app/chat/page.tsx and app/study-buddy/page.tsx *)

\* featureMap of RightSidebar: the feature of a route
FeatureOf(path) ==
  IF path = "/chat" THEN "chat"
  ELSE IF path = "/study-buddy" THEN "study-buddy"
  ELSE "fact-check"

\* the page of feature f is mounted and the provider's mount effects have run
Mounted(f) == isHydrated /\ ~crashed /\ FeatureOf(pathname) = f

MsgEmptyInput(f) ==
  IF f = "chat" THEN "Vui long nhap tin nhan hoac tai len tep"
  ELSE "Vui long nhap van ban hoac tai len tep"

MsgMaxFiles == "Toi da 10 tep"
MsgCanceled == "Da huy yeu cau"
MsgGeneric  == "Co loi xay ra. Vui long thu lai."
MsgChatDefaultDetail == "Khong the gui tin nhan"
MsgStudyNotOk == "Khong the tao tom tat"

InputRejectedWithoutTrim(text, nFiles) == text = "" /\ nFiles = 0

\* the guard at the top of handleSend
InputRejected(text, nFiles) == Trim(text) = "" /\ nFiles = 0

\* the content of the optimistic user message
UserContent(f, text, nFiles) ==
  IF nFiles > 0
  THEN IF f = "chat"
       THEN "[" \o ToString(nFiles) \o " tep dinh kem] " \o text
       ELSE "[" \o ToString(nFiles) \o " tep dinh kem]"
  ELSE text

\* [...messages, userMessage]
UpdatedMessages(f, live, text, nFiles) ==
  Append(live, Message("user", UserContent(f, text, nFiles)))

\* a handleSend invocation suspended at an await
Call(id, snap, updated, stage, ok, request) ==
  [id |-> id, snap |-> snap, updated |-> updated, stage |-> stage, ok |-> ok,
   request |-> request]

\* the staged files handleSend appends to the form data: Chat appends them in
\* advanced mode only
FilesSent(f, nFiles, advanced) == IF f = "chat" /\ ~advanced THEN 0 ELSE nFiles

\* handleSend appends the "request" part, the JSON descriptor: Chat always, the
\* study-buddy page when no file is staged and the text is not blank
DescriptorSent(f, text, nFiles) == f = "chat" \/ (nFiles = 0 /\ Trim(text) # "")

\* the form data of the outbound call: the number of "files" parts, and the
\* descriptor with its text and, on the chat page, its history
Request(f, text, nFiles, history, advanced) ==
  [files      |-> FilesSent(f, nFiles, advanced),
   descriptor |-> DescriptorSent(f, text, nFiles),
   text       |-> IF DescriptorSent(f, text, nFiles) THEN text ELSE Undefined,
   hasHistory |-> f = "chat",
   history    |-> IF f = "chat" THEN history ELSE <<>>]

\* what the code between "await fetch" and "await response.json()" throws
HeadersException(f, ok) ==
  IF f = "study-buddy" /\ ~ok THEN Exception("Error", MsgStudyNotOk) ELSE NoException

\* what the code after "await response.json()" throws
BodyException(f, ok, body) ==
  IF body.kind = "unparseable" THEN SyntaxError
  ELSE IF f = "chat"
  THEN IF body.kind = "null"
       THEN IF ~ok THEN Exception("Error", MsgChatDefaultDetail) ELSE NullAccess
       ELSE IF ~ok \/ ~body.success
       THEN Exception("Error",
                      IF Truthy(body.detail) THEN body.detail
                      ELSE IF Truthy(body.error) THEN body.error
                      ELSE MsgChatDefaultDetail)
       ELSE NoException
  ELSE IF body.kind = "null" THEN NullAccess ELSE NoException

NewMessagesFromSnapshot(c, body) == Append(c.snap, Message("assistant", body.text))

\* [...updatedMessages, assistantMessage]
NewMessages(c, body) == Append(c.updated, Message("assistant", body.text))

CatchMessagesKeepsLive(c, err, live) == live

CatchMessagesAlwaysRollsBack(c, err, live) == c.snap

\* the transcript after the catch block
CatchMessages(c, err, live) == IF err.name = "AbortError" THEN c.snap ELSE live

\* the error message the catch block sets
CatchError(f, err) ==
  IF err.name = "AbortError" THEN MsgCanceled
  ELSE IF f = "chat"
  THEN IF Truthy(err.message) THEN err.message ELSE MsgGeneric
  ELSE MsgGeneric

\* how an invocation that settled with exception err ends
Outcome(err) ==
  IF err = NoException THEN "success"
  ELSE IF err.name = "AbortError" THEN "canceled"
  ELSE "failed"

SavesHistoryOnEveryPath(outcome) == TRUE

\* the paths of handleSend that reach the addHistory call
SavesHistory(outcome) == outcome = "success"

LoadingClearedAtEndOfTry(outcome) == outcome # "success"

LoadingKeptAfterFailure(outcome) == outcome = "failed"

\* the value of loading when handleSend returns: the finally block runs on every path
LoadingAfter(outcome) == FALSE

\* the effect of Chat on [loading]: the timer after loading went from was to is.
\* The study-buddy page has no such effect
TimeoutAfter(f, was, is, cur) ==
  IF was = is THEN cur
  ELSE IF is /\ f = "chat" THEN LongLoadingDelay
  ELSE NoTimeout

\* the effect of Chat on [loading]: showLongLoadingWarning after it ran
WarningAfter(f, was, is, cur) == IF was = is THEN cur ELSE FALSE

\* the timers and the warning after a step that sets loading of f to is
LoadingEffect(f, is) ==
  /\ loadingTimeout' = [loadingTimeout EXCEPT ![f] = TimeoutAfter(f, loading[f], is, @)]
  /\ showLongLoadingWarning' =
       [showLongLoadingWarning EXCEPT ![f] = WarningAfter(f, loading[f], is, @)]
  /\ pendingMs' = [pendingMs EXCEPT ![f] = IF loading[f] = is THEN @ ELSE 0]

TotalSubmits == nSubmits["chat"] + nSubmits["study-buddy"]

\* onChange of the text box.  gated: through the rendered text box, which is
\* disabled while loading
SetInput(f, t, gated) ==
  /\ Mounted(f)
  /\ gated => ~loading[f]
  /\ t # input[f]
  /\ input' = [input EXCEPT ![f] = t]
  /\ UNCHANGED <<messages, files, loading, error, abortRef, aborted, calls, nSubmits,
                 pathname, storeVars, now, nStoreOps, addCalls, crashed, timerVars, advancedMode, factCheck, storageCalls>>

\* handleFileSelect of Chat refuses a selection that takes the list above 10 files
\* and reports it
SelectRejected(f, n, k) == f = "chat" /\ n + k > MaxStagedFiles

FilesAfterSelectUnchecked(f, n, k) == n + k

\* the staged files after k files were chosen in the dialog with n staged: Chat's
\* input is "multiple" and takes all of them or none; the input of the study-buddy
\* page takes the first, when fewer than 10 are staged
FilesAfterSelect(f, n, k) ==
  IF f = "chat"
  THEN IF n + k > MaxStagedFiles THEN n ELSE n + k
  ELSE IF n < MaxStagedFiles THEN n + 1 ELSE n

\* onChange of the file input with k files chosen (one where the input is not
\* "multiple").  gated: through the rendered file input, which is
\* disabled while loading or with 10 files staged, and which Chat renders in
\* advanced mode only
SelectFiles(f, k, gated) ==
  /\ Mounted(f)
  /\ f # "chat" => k = 1
  /\ gated => (~loading[f] /\ files[f] < MaxStagedFiles /\ (f = "chat" => advancedMode))
  /\ files' = [files EXCEPT ![f] = FilesAfterSelect(f, @, k)]
  /\ error' = [error EXCEPT ![f] = IF SelectRejected(f, files[f], k) THEN MsgMaxFiles ELSE @]
  /\ UNCHANGED <<messages, input, loading, abortRef, aborted, calls, nSubmits,
                 pathname, storeVars, now, nStoreOps, addCalls, crashed, timerVars, advancedMode,
                 factCheck, storageCalls>>

\* one file chosen in the dialog, up to MaxFiles staged files
AddFile(f, gated) ==
  /\ files[f] < MaxFiles
  /\ SelectFiles(f, 1, gated)

\* removeFile.  gated: through the button of a staged file, which Chat renders in
\* advanced mode only
RemoveFile(f, gated) ==
  /\ Mounted(f)
  /\ gated => (f = "chat" => advancedMode)
  /\ files[f] > 0
  /\ files' = [files EXCEPT ![f] = @ - 1]
  /\ UNCHANGED <<messages, input, loading, error, abortRef, aborted, calls, nSubmits,
                 pathname, storeVars, now, nStoreOps, addCalls, crashed, timerVars, advancedMode, factCheck, storageCalls>>

\* click on the mode button of Chat, which is never disabled
ToggleAdvancedMode ==
  /\ Mounted("chat")
  /\ advancedMode' = ~advancedMode
  /\ UNCHANGED <<messages, input, files, loading, error, abortRef, aborted, calls, nSubmits,
                 pathname, timerVars, storeVars, now, nStoreOps, addCalls, crashed, factCheck, storageCalls>>

\* handleSend up to "await fetch".  gated: invoked through the rendered controls
\* (the text box is disabled and the send button is replaced while loading)
HandleSend(f, gated) ==
  /\ Mounted(f)
  /\ gated => ~loading[f]
  /\ IF InputRejected(input[f], files[f])
     THEN /\ error' = [error EXCEPT ![f] = MsgEmptyInput(f)]
          /\ UNCHANGED <<messages, input, files, loading, abortRef, calls, nSubmits, timerVars>>
     ELSE /\ TotalSubmits < MaxSubmits
          /\ LET id == nSubmits[f] + 1
                 updated == UpdatedMessages(f, messages[f], input[f], files[f])
             IN  /\ messages' = [messages EXCEPT ![f] = updated]
                 /\ calls' = [calls EXCEPT ![f] =
                                @ \cup {Call(id, messages[f], updated, "fetch", FALSE,
                                             Request(f, input[f], files[f], messages[f],
                                                     advancedMode))}]
                 /\ abortRef' = [abortRef EXCEPT ![f] = id]
                 /\ nSubmits' = [nSubmits EXCEPT ![f] = id]
          /\ input' = [input EXCEPT ![f] = ""]
          /\ files' = [files EXCEPT ![f] = 0]
          /\ loading' = [loading EXCEPT ![f] = TRUE]
          /\ LoadingEffect(f, TRUE)
          /\ error' = [error EXCEPT ![f] = ""]
  /\ UNCHANGED <<aborted, pathname, storeVars, now, nStoreOps, addCalls, crashed, advancedMode, factCheck, storageCalls>>

\* handleSend from the point where its await settled: err is what the try block
\* threw (NoException: it ran to its end, body is the parsed response)
Settle(f, c, err, body) ==
  LET outcome == Outcome(err)
      after == IF outcome = "success" THEN NewMessages(c, body)
               ELSE CatchMessages(c, err, messages[f])
  IN  /\ calls' = [calls EXCEPT ![f] = @ \ {c}]
      /\ messages' = [messages EXCEPT ![f] = after]
      /\ error' = [error EXCEPT ![f] = IF outcome = "success" THEN @ ELSE CatchError(f, err)]
      /\ loading' = [loading EXCEPT ![f] = LoadingAfter(outcome)]
      /\ LoadingEffect(f, LoadingAfter(outcome))
      /\ IF SavesHistory(outcome)
         THEN /\ histories' = AddHistory(histories, f, after, now)
              /\ localStorage' = IF AddHistoryReturnsEarly(after) THEN localStorage
                                 ELSE SaveEffect(isHydrated, histories', localStorage)
              /\ addCalls' = [addCalls EXCEPT ![f] = @ + 1]
         ELSE UNCHANGED <<histories, localStorage, addCalls>>
      /\ UNCHANGED <<input, files, abortRef, nSubmits, pathname, isHydrated, now, nStoreOps, crashed, advancedMode, factCheck, storageCalls>>

\* the transport fails while the invocation awaits the response or its body
TransportFails(f) ==
  \E c \in calls[f] : Settle(f, c, NetworkError, BodyNull) /\ UNCHANGED aborted

\* "await fetch" resolves with a response whose status is ok or not
HeadersArrive(f, ok) ==
  \E c \in calls[f] :
    /\ c.stage = "fetch"
    /\ IF HeadersException(f, ok) # NoException
       THEN Settle(f, c, HeadersException(f, ok), BodyNull) /\ UNCHANGED aborted
       ELSE /\ calls' = [calls EXCEPT ![f] =
                           (@ \ {c}) \cup {Call(c.id, c.snap, c.updated, "json", ok,
                                                   c.request)}]
            /\ UNCHANGED <<messages, input, files, loading, error, abortRef, aborted, nSubmits,
                           pathname, storeVars, now, nStoreOps, addCalls, crashed, timerVars, advancedMode, factCheck, storageCalls>>

\* "await response.json()" settles
BodyArrives(f, body) ==
  \E c \in calls[f] :
    /\ c.stage = "json"
    /\ Settle(f, c, BodyException(f, c.ok, body), body)
    /\ UNCHANGED aborted

CallsWithSignalNotPassed(f, id) == {}

CallsWithAnySignal(f, id) == calls[f]

\* the calls whose fetch was given the signal of controller id
CallsWithSignal(f, id) == {c \in calls[f] : c.id = id}

\* handleCancel.  gated: invoked through the cancel button, rendered while loading.
\* abort() marks the signal, rejects the pending await of the fetch that was given
\* it, and the catch block runs before any other event is handled
HandleCancel(f, gated) ==
  /\ Mounted(f)
  /\ gated => loading[f]
  /\ IF abortRef[f] = 0
     THEN UNCHANGED <<pageVars, storeVars, now, nStoreOps, addCalls, crashed, storageCalls>>
     ELSE /\ aborted' = [aborted EXCEPT ![f] = @ \cup {abortRef[f]}]
          /\ IF CallsWithSignal(f, abortRef[f]) # {}
             THEN \E c \in CallsWithSignal(f, abortRef[f]) : Settle(f, c, AbortError, BodyNull)
             ELSE UNCHANGED <<messages, input, files, loading, error, abortRef, calls,
                             nSubmits, pathname, storeVars, now, nStoreOps, addCalls, crashed, timerVars, advancedMode, factCheck, storageCalls>>

\* click on an entry of the history sidebar: handleLoadHistory(history.messages)
LoadHistory(f, i) ==
  /\ Mounted(f)
  /\ i \in 1..Len(Lookup(histories, f))
  /\ messages' = [messages EXCEPT ![f] = Lookup(histories, f)[i].messages]
  /\ UNCHANGED <<input, files, loading, error, abortRef, aborted, calls, nSubmits,
                 pathname, storeVars, now, nStoreOps, addCalls, crashed, timerVars, advancedMode, factCheck, storageCalls>>

\* click on the delete button of an entry of the history sidebar
SidebarDelete(f, i) ==
  /\ Mounted(f)
  /\ nStoreOps < MaxSidebarOps
  /\ nStoreOps' = nStoreOps + 1
  /\ i \in 1..Len(Lookup(histories, f))
  /\ histories' = DeleteHistory(histories, f, Lookup(histories, f)[i].id)
  /\ localStorage' = SaveEffect(isHydrated, histories', localStorage)
  /\ UNCHANGED <<pageVars, isHydrated, now, addCalls, crashed, storageCalls>>

\* click on "delete all", rendered when the list is not empty
SidebarClear(f) ==
  /\ Mounted(f)
  /\ nStoreOps < MaxSidebarOps
  /\ nStoreOps' = nStoreOps + 1
  /\ Len(Lookup(histories, f)) > 0
  /\ histories' = ClearHistory(histories, f)
  /\ localStorage' = SaveEffect(isHydrated, histories', localStorage)
  /\ UNCHANGED <<pageVars, isHydrated, now, addCalls, crashed, storageCalls>>

\* the entries of the sidebar the model clicks: the first and the last
Entries(list) == {j \in {1, Len(list)} : j \in 1..Len(list)}

Network ==
  \/ \E f \in Features : TransportFails(f)
  \/ \E f \in Features, ok \in BOOLEAN : HeadersArrive(f, ok)
  \/ \E f \in Features, body \in Bodies : BodyArrives(f, body)

Sidebar ==
  \/ \E f \in Features : \E i \in Entries(Lookup(histories, f)) : LoadHistory(f, i)
  \/ \E f \in Features : \E i \in Entries(Lookup(histories, f)) : SidebarDelete(f, i)
  \/ \E f \in Features : SidebarClear(f)

Typing(gated) ==
  \/ \E f \in Features, t \in Texts : SetInput(f, t, gated)
  \/ \E f \in Features : AddFile(f, gated)
  \/ \E f \in Features : RemoveFile(f, gated)
  \/ ToggleAdvancedMode

\* the pages as rendered
Next ==
  \/ Hydrate
  \/ Tick
  \/ Typing(TRUE)
  \/ \E f \in Features : HandleSend(f, TRUE)
  \/ \E f \in Features : HandleCancel(f, TRUE)
  \/ Network
  \/ Sidebar

Spec == Init /\ [][Next]_vars

\* the pages as rendered, within one millisecond of the clock
NextLive ==
  \/ Hydrate
  \/ Typing(TRUE)
  \/ \E f \in Features : HandleSend(f, TRUE)
  \/ \E f \in Features : HandleCancel(f, TRUE)
  \/ Network
  \/ Sidebar

\* the pages as rendered, with every outbound call eventually resolving or
\* rejecting: fetch and response.json() settle
SpecLive == Init /\ [][NextLive]_vars /\ WF_vars(Network)

\* "await response.json()" resolves, the try block runs to its end, and the save
\* effect that follows the addHistory call throws: localStorage.setItem rejects the
\* write (the quota is exceeded).  Nothing catches an exception thrown by an
\* effect: React unmounts the tree
BodyArrivesWriteFails(f, body) ==
  \E c \in calls[f] :
    /\ c.stage = "json"
    /\ BodyException(f, c.ok, body) = NoException
    /\ ~AddHistoryReturnsEarly(NewMessages(c, body))
    /\ calls' = [calls EXCEPT ![f] = @ \ {c}]
    /\ messages' = [messages EXCEPT ![f] = NewMessages(c, body)]
    /\ loading' = [loading EXCEPT ![f] = LoadingAfter("success")]
    /\ LoadingEffect(f, LoadingAfter("success"))
    /\ histories' = AddHistory(histories, f, NewMessages(c, body), now)
    /\ addCalls' = [addCalls EXCEPT ![f] = @ + 1]
    /\ crashed' = TRUE
    /\ UNCHANGED <<input, files, error, abortRef, aborted, nSubmits, pathname,
                   isHydrated, localStorage, now, nStoreOps, advancedMode, factCheck, storageCalls>>

\* time passes: the running timers come nearer to firing, none passes its time
Elapse ==
  /\ \E f \in Features : Mounted(f) /\ loading[f] /\ pendingMs[f] < LongLoadingDelay
  /\ \A f \in Features : loadingTimeout[f] # 0
  /\ loadingTimeout' = [f \in Features |->
                          IF loadingTimeout[f] = NoTimeout THEN NoTimeout
                          ELSE IF loadingTimeout[f] <= ElapseStep THEN 0
                          ELSE loadingTimeout[f] - ElapseStep]
  /\ pendingMs' = [f \in Features |->
                     IF ~loading[f] THEN pendingMs[f]
                     ELSE IF pendingMs[f] + ElapseStep >= LongLoadingDelay THEN LongLoadingDelay
                     ELSE pendingMs[f] + ElapseStep]
  /\ UNCHANGED <<messages, input, files, loading, error, abortRef, aborted, calls, nSubmits,
                 pathname, showLongLoadingWarning, storeVars, now, nStoreOps, addCalls,
                 crashed, advancedMode, factCheck, storageCalls>>

\* the callback of the timer of Chat runs
TimeoutFires(f) ==
  /\ Mounted(f)
  /\ loadingTimeout[f] = 0
  /\ loadingTimeout' = [loadingTimeout EXCEPT ![f] = NoTimeout]
  /\ showLongLoadingWarning' = [showLongLoadingWarning EXCEPT ![f] = TRUE]
  /\ UNCHANGED <<messages, input, files, loading, error, abortRef, aborted, calls, nSubmits,
                 pathname, pendingMs, storeVars, now, nStoreOps, addCalls, crashed, advancedMode, factCheck, storageCalls>>

\* the pages as rendered, with the time of a pending request passing
NextTimer ==
  \/ Hydrate
  \/ Typing(TRUE)
  \/ \E f \in Features : HandleSend(f, TRUE)
  \/ \E f \in Features : HandleCancel(f, TRUE)
  \/ Network
  \/ Elapse
  \/ \E f \in Features : TimeoutFires(f)

SpecTimer == Init /\ [][NextTimer]_vars

\* the pages as rendered, over a storage that may reject a write
NextQuota ==
  \/ Next
  \/ \E f \in Features, body \in Bodies : BodyArrivesWriteFails(f, body)

SpecQuota == Init /\ [][NextQuota]_vars

\* the handlers invoked whatever the rendered controls allow
NextHandlers ==
  \/ Hydrate
  \/ Typing(FALSE)
  \/ \E f \in Features : HandleSend(f, FALSE)
  \/ \E f \in Features : HandleCancel(f, FALSE)
  \/ Network

SpecHandlers == Init /\ [][NextHandlers]_vars

----------------------------------------------------------------------------
(* The fact-check page and the staging of files *)

FactCheckMounted == ~crashed /\ pathname = "/fact-check"

\* onChange of the claim text area
SetClaim(t) ==
  /\ FactCheckMounted
  /\ t # factCheck.claim
  /\ factCheck' = [factCheck EXCEPT !.claim = t]
  /\ UNCHANGED <<messages, input, files, loading, error, abortRef, aborted, calls, nSubmits,
                 pathname, timerVars, advancedMode, storeVars, now, nStoreOps, addCalls, crashed, storageCalls>>

\* onChange of the file input of FactCheck, which is rendered with fewer than 10
\* staged files: the first chosen file is staged and the claim is cleared
FactCheckAddFile ==
  /\ FactCheckMounted
  /\ factCheck.files < MaxStagedFiles
  /\ factCheck' = [claim |-> "",
                   files |-> FilesAfterSelect("fact-check", factCheck.files, 1)]
  /\ UNCHANGED <<messages, input, files, loading, error, abortRef, aborted, calls, nSubmits,
                 pathname, timerVars, advancedMode, storeVars, now, nStoreOps, addCalls, crashed, storageCalls>>

\* click on the remove button of a staged file of FactCheck
FactCheckRemoveFile ==
  /\ FactCheckMounted
  /\ factCheck.files > 0
  /\ factCheck' = [factCheck EXCEPT !.files = @ - 1]
  /\ UNCHANGED <<messages, input, files, loading, error, abortRef, aborted, calls, nSubmits,
                 pathname, timerVars, advancedMode, storeVars, now, nStoreOps, addCalls, crashed, storageCalls>>

\* the three pages with a file input, as rendered: files are chosen and removed,
\* and a submit empties the list
NextFiles ==
  \/ Hydrate
  \/ ToggleAdvancedMode
  \/ \E f \in Features, k \in 1..MaxSelected : SelectFiles(f, k, TRUE)
  \/ \E f \in Features : RemoveFile(f, TRUE)
  \/ \E f \in Features : HandleSend(f, TRUE)
  \/ Network
  \/ \E t \in Texts : SetClaim(t)
  \/ FactCheckAddFile
  \/ FactCheckRemoveFile

InitFiles == InitOn({"/chat", "/study-buddy", "/fact-check"})

SpecFiles == InitFiles /\ [][NextFiles]_vars

-----------------------------------------------------------------------------
(* Steps of handleSend, as seen from a pair of states *)

\* handleSend was invoked, passed validation and suspended at "await fetch" as c
SubmitsNow(f, c) == c \in calls'[f] /\ c \notin calls[f] /\ c.stage = "fetch"

\* the invocation c ran its try block to the end
SucceedsNow(f, c) ==
  /\ c \in calls[f]
  /\ c.stage = "json"
  /\ \E body \in Bodies :
       /\ BodyException(f, c.ok, body) = NoException
       /\ Settle(f, c, NoException, body)
  /\ UNCHANGED aborted

\* the invocation c ran its catch block for a failure of the remote call
FailsNow(f, c) ==
  /\ c \in calls[f]
  /\ \/ Settle(f, c, NetworkError, BodyNull)
     \/ /\ c.stage = "fetch"
        /\ \E ok \in BOOLEAN :
             /\ HeadersException(f, ok) # NoException
             /\ Settle(f, c, HeadersException(f, ok), BodyNull)
     \/ /\ c.stage = "json"
        /\ \E body \in Bodies :
             /\ BodyException(f, c.ok, body) # NoException
             /\ Settle(f, c, BodyException(f, c.ok, body), body)
  /\ UNCHANGED aborted

\* the response is one the specification calls a failure: a status that is not ok,
\* or a body that is not a JSON object
FailedResponse(ok, body) == ~ok \/ body.kind \in {"unparseable", "null"}

\* the remote call of c fails: the transport fails, or a failed response is handled
RemoteCallFailsNow(f, c) ==
  /\ c \in calls[f]
  /\ \/ TransportFails(f) /\ c \notin calls'[f]
     \/ /\ c.stage = "fetch"
        /\ HeadersArrive(f, FALSE)
        /\ \A d \in calls'[f] : d.id # c.id
     \/ /\ c.stage = "json"
        /\ \E body \in Bodies : FailedResponse(c.ok, body) /\ BodyArrives(f, body)
        /\ c \notin calls'[f]

\* handleCancel was invoked while c, the request of the current controller, is pending
CancelsNow(f, c) == c \in calls[f] /\ c.id = abortRef[f] /\ HandleCancel(f, TRUE)

\* the ids of the pending invocations
PendingIds(cs) == {c.id : c \in cs}

\* t is s with one turn of each of the roles appended, in that order
Appended(s, t, roles) ==
  /\ Len(t) = Len(s) + Len(roles)
  /\ SubSeq(t, 1, Len(s)) = s
  /\ \A i \in 1..Len(roles) : t[Len(s) + i].role = roles[i]

\* the snapshot an invocation keeps is the transcript as it was before the submit
SnapshotIsPreSubmit(f) == \A c \in calls'[f] : SubmitsNow(f, c) => c.snap = messages[f]

----------------------------------------------------------------------------
(* C1..C10 *)

\* C1: a submit whose remote call succeeds leaves the live transcript equal to the
\* transcript before the submit with one USER turn and then one ASSISTANT turn
\* appended, and nothing else of it changed.
C1_SuccessAppendsUserThenAssistant ==
  [][\A f \in Features :
       /\ SnapshotIsPreSubmit(f)
       /\ \A c \in calls[f] :
            SucceedsNow(f, c) => Appended(c.snap, messages'[f], <<"user", "assistant">>)]_vars

C1_Witness ==
  \E f \in Features :
    /\ calls[f] = {}
    /\ addCalls[f] = 1
    /\ ~loading[f]
    /\ Appended(<<Greeting(f)>>, messages[f], <<"user", "assistant">>)

\* C2: cancel() invoked while a submit is pending takes the controller to IDLE with
\* the live transcript equal to the transcript as it was just before that submit.
C2_CancelRollsBackExactly ==
  [][\A f \in Features :
       /\ \A c \in calls'[f] : SubmitsNow(f, c) => c.snap = messages[f]
       /\ \A c \in calls[f] :
            CancelsNow(f, c) =>
              /\ messages'[f] = c.snap
              /\ calls'[f] = {}
              /\ ~loading'[f]]_vars

C2_Witness ==
  \E f \in Features :
    /\ calls[f] = {}
    /\ aborted[f] # {}
    /\ error[f] = MsgCanceled
    /\ messages[f] = <<Greeting(f)>>

C4_AtMostOnePending == \A f \in Features : Cardinality(calls[f]) <= 1

\* C5: once cancel() was invoked on a pending request, no response is applied for
\* it: no pending invocation holds an aborted signal, whatever stage of the remote
\* call the cancel met, and the cancel itself appends no ASSISTANT turn and does
\* not call addHistory.
C5_CanceledRequestNeverApplied ==
  /\ [](\A f \in Features : \A c \in calls[f] : c.id \notin aborted[f])
  /\ [][\A f \in Features : \A c \in calls[f] :
          CancelsNow(f, c) =>
            /\ \A m \in 1..Len(messages'[f]) :
                 messages'[f][m].role = "assistant" => m <= Len(c.snap)
            /\ histories' = histories
            /\ addCalls' = addCalls]_vars

C5_Witness ==
  \E f \in Features :
    /\ aborted[f] = {1}
    /\ nSubmits[f] = 2
    /\ addCalls[f] = 1
    /\ calls[f] = {}

\* C6: a submit that ends in success makes exactly one addHistory call, which puts
\* one record holding the live transcript first in the feature's list; a submit
\* that ends in cancellation or failure leaves the History Store untouched.
C6_OneStoreMutationPerSuccess ==
  [][\A f \in Features : \A c \in calls[f] :
       /\ SucceedsNow(f, c) =>
            LET old == Lookup(histories, f)
                new == Lookup(histories', f)
            IN  /\ addCalls'[f] = addCalls[f] + 1
                /\ Len(new) = Min(Len(old) + 1, MaxHistories)
                /\ new[1].messages = messages'[f]
                /\ \A i \in 2..Len(new) : new[i] = old[i - 1]
                /\ \A g \in DOMAIN histories : g # f => histories'[g] = histories[g]
       /\ (FailsNow(f, c) \/ CancelsNow(f, c)) =>
            /\ addCalls' = addCalls
            /\ histories' = histories
            /\ localStorage' = localStorage]_vars

C6_Witness ==
  \E f \in Features :
    /\ nSubmits[f] = 2
    /\ addCalls[f] = 1
    /\ calls[f] = {}
    /\ error[f] \notin {"", MsgCanceled}

\* the records of every feature's list
Records(h) == UNION {{h[f][i] : i \in 1..Len(h[f])} : f \in DOMAIN h}

HasUserTurn(msgs) == \E i \in 1..Len(msgs) : msgs[i].role = "user"

\* the content of the first USER turn of a transcript that has one
FirstUserContent(msgs) ==
  LET first == CHOOSE i \in 1..Len(msgs) :
                 /\ msgs[i].role = "user"
                 /\ \A j \in 1..(i - 1) : msgs[j].role # "user"
  IN  msgs[first].content

\* addHistory(f, msgs) is called directly
AddsNow(f, msgs) == msgs \in ApiTranscripts /\ ApiAddHistory(f, msgs)

\* deleteHistory(f, id) is called directly
DeletesNow(f, id) == id \in IdsToTry(Lookup(histories, f)) /\ ApiDeleteHistory(f, id)

\* list without its k-th element
Without(list, k) == SubSeq(list, 1, k - 1) \o SubSeq(list, k + 1, Len(list))

\* C7: every feature's list holds at most 20 records, newest first; addHistory on
\* a list of 20 puts the new record first, keeps the former first 19 in their
\* order and drops the former last.
C7_BoundedNewestFirst ==
  /\ [](\A f \in DOMAIN histories :
          /\ Len(histories[f]) <= 20
          /\ \A i \in 1..Len(histories[f]) : \A j \in i..Len(histories[f]) :
               histories[f][i].timestamp >= histories[f][j].timestamp)
  /\ [][\A f \in Features : \A msgs \in ApiTranscripts :
          (AddsNow(f, msgs) /\ HasUserTurn(msgs) /\ Len(Lookup(histories, f)) = 20) =>
            /\ Len(histories'[f]) = 20
            /\ histories'[f][1].messages = msgs
            /\ histories'[f][1].timestamp = now
            /\ \A i \in 2..20 : histories'[f][i] = histories[f][i - 1]]_vars

C7_Witness ==
  /\ "chat" \in DOMAIN histories
  /\ Len(histories["chat"]) = 20
  /\ histories["chat"][1].timestamp >= ClockStart
  /\ histories["chat"][2].timestamp >= ClockStart
  /\ \A i \in 1..20 : histories["chat"][i] # OldRecord(1)
  /\ histories["chat"][20] = OldRecord(2)

\* C8: addHistory with an empty transcript or one without a USER turn changes
\* nothing of the mapping (nor of the stored value); every record of the store has
\* a transcript with a USER turn.
C8_NoUserTurnIsNoOp ==
  /\ [](\A r \in Records(histories) : HasUserTurn(r.messages))
  /\ [][\A f \in Features : \A msgs \in ApiTranscripts :
          (AddsNow(f, msgs) /\ ~HasUserTurn(msgs)) =>
            /\ histories' = histories
            /\ localStorage' = localStorage]_vars

C8_Witness ==
  /\ isHydrated
  /\ nStoreOps = 2
  /\ histories = <<>>
  /\ localStorage = JSONStringify(<<>>)

\* C9: the title of a record is the first min(30, len) characters of the content
\* of the first USER turn of its transcript; its preview is that content when it
\* has at most 50 characters, else its first 50 characters followed by "...".
C9_TitleAndPreview ==
  \A r \in Records(histories) :
    LET u == FirstUserContent(r.messages)
    IN  /\ r.title = SubSeq(u, 1, Min(30, Len(u)))
        /\ r.preview = IF Len(u) <= 50 THEN u ELSE SubSeq(u, 1, 50) \o "..."

C9_Witness ==
  \E r \in Records(histories) :
    /\ r.timestamp >= ClockStart
    /\ r.messages[1].role = "assistant"
    /\ Len(FirstUserContent(r.messages)) = 51
    /\ Len(r.title) = 30
    /\ Len(r.preview) = 53

\* C10: deleteHistory with an id no record of the list has leaves the list as it
\* is; with an id that matches, it removes the matching record and keeps every
\* other record of the list, in order.
C10_DeleteRemovesTheMatchingRecord ==
  [][\A f \in Features : \A id \in IdsToTry(Lookup(histories, f)) :
       DeletesNow(f, id) =>
         LET old == Lookup(histories, f)
             new == Lookup(histories', f)
         IN  IF \A k \in 1..Len(old) : old[k].id # id
             THEN new = old
             ELSE \E k \in 1..Len(old) : old[k].id = id /\ new = Without(old, k)]_vars

----------------------------------------------------------------------------
(* C11..C20 *)

\* the transcript is the transcript of a record of the store
Stored(msgs) == \E r \in Records(histories) : r.messages = msgs

\* new holds the records of old, each as it was and in the same order, behind at
\* most one new record, cut at the limit of the list
KeepsRecords(old, new) ==
  \E k \in {0, 1} :
    /\ Len(new) = Min(Len(old) + k, MaxHistories)
    /\ \A i \in 1..(Len(new) - k) : new[i + k] = old[i]

Unusable(blob) == blob \in {Absent, Corrupt, JSONStringify(Null)}

\* C12: hydration from an absent or corrupt blob (text that does not parse, or
\* JSON that is not a mapping, such as null) leaves the store an empty mapping,
\* and neither hydration nor a later read or call of the store crashes.
C12_UnusableBlobStartsEmpty ==
  /\ [](~crashed)
  /\ [][(Hydrate /\ Unusable(localStorage)) => histories' = <<>>]_vars

\* C12, the part the code keeps: an absent blob and text that does not parse leave
\* the store an empty mapping, without a crash
C12_AbsentOrUnparseableStartsEmpty ==
  [][(Hydrate /\ localStorage \in {Absent, Corrupt}) =>
       (histories' = <<>> /\ ~crashed')]_vars

\* C13: no two records of the store, of the same feature or of two features, have
\* the same id, whatever the timing of the addHistory calls that made them.
C13_IdsAreUnique ==
  \A f \in DOMAIN histories : \A g \in DOMAIN histories :
    \A i \in 1..Len(histories[f]) : \A j \in 1..Len(histories[g]) :
      (f # g \/ i # j) => histories[f][i].id # histories[g][j].id

\* C14: whenever no request of a controller is pending its loading flag is false,
\* and every step that ends a submit (success, failure, cancel, or an exception
\* thrown in the try block after the response arrived) clears the flag.
C14_LoadingClearedOnEveryOutcome ==
  /\ [](\A f \in Features : calls[f] = {} => ~loading[f])
  /\ [][\A f \in Features : \A c \in calls[f] :
          (SucceedsNow(f, c) \/ FailsNow(f, c) \/ CancelsNow(f, c)) => ~loading'[f]]_vars

\* a submit succeeded and the next one was canceled; nothing is pending
C14_Witness ==
  \E f \in Features :
    /\ nSubmits[f] = 2
    /\ addCalls[f] = 1
    /\ aborted[f] = {2}
    /\ calls[f] = {}
    /\ ~loading[f]

\* a step that changes the mapping of the store after hydration
MutatesNow == isHydrated /\ histories' # histories

\* C15: once the store is hydrated the persisted blob is the serialization of the
\* whole in-memory mapping: every addHistory, deleteHistory and clearHistory that
\* changes the mapping writes the new mapping under the storage key.
C15_BlobIsTheSerializedMapping ==
  /\ [](isHydrated => localStorage = JSONStringify(histories))
  /\ [][MutatesNow => localStorage' = JSONStringify(histories')]_vars

\* records were added to the lists of both features and one list was emptied
\* again; the blob holds the mapping with the full list and the empty one
C15_Witness ==
  /\ nStoreOps = 3
  /\ DOMAIN histories = Features
  /\ Len(histories["chat"]) = NumStored + 1
  /\ histories["study-buddy"] = <<>>
  /\ localStorage = JSONStringify(histories)

\* the text is empty or holds only blanks
Blank(text) == \A i \in 1..Len(text) : SubSeq(text, i, i) = " "

\* C16: handleSend with empty or blank text and no attachment sets the validation
\* message and does nothing else: no call is issued, no turn is appended, loading
\* stays false and the store is not touched.
C16_BlankSubmitIsRejectedLocally ==
  [][\A f \in Features :
       (Blank(input[f]) /\ files[f] = 0 /\ HandleSend(f, TRUE)) =>
         /\ error'[f] = MsgEmptyInput(f)
         /\ error'[f] # ""
         /\ calls' = calls
         /\ nSubmits' = nSubmits
         /\ abortRef' = abortRef
         /\ messages' = messages
         /\ ~loading'[f]
         /\ histories' = histories
         /\ localStorage' = localStorage
         /\ addCalls' = addCalls]_vars

\* a submit of a blank text was rejected before anything was ever submitted
C16_Witness ==
  \E f \in Features :
    /\ input[f] = " "
    /\ error[f] = MsgEmptyInput(f)
    /\ nSubmits[f] = 0
    /\ messages[f] = <<Greeting(f)>>
    /\ ~loading[f]

\* the page of f is mounted and idle
Idle(f) == Mounted(f) /\ ~loading[f] /\ calls[f] = {}

\* handleSend is invoked through the rendered controls and the submit is accepted
AcceptsNow(f) == HandleSend(f, TRUE) /\ loading'[f] /\ calls'[f] # {}

\* C17: with every outbound call eventually resolving, rejecting or being
\* aborted, a pending controller becomes idle again; and in every idle state,
\* whatever came before (nothing, success, cancel, failure, a loaded transcript),
\* a submit of non-blank text or of an attachment is accepted and makes the
\* controller pending (MaxSubmits bounds the submits the model makes).
C17_NoTerminalState ==
  /\ \A f \in Features : loading[f] ~> Idle(f)
  /\ [](\A f \in Features :
          (Idle(f) /\ ~(Blank(input[f]) /\ files[f] = 0) /\ TotalSubmits < MaxSubmits)
            => ENABLED AcceptsNow(f))
  /\ [][\A f \in Features :
          (Idle(f) /\ ~(Blank(input[f]) /\ files[f] = 0) /\ HandleSend(f, TRUE))
            => (loading'[f] /\ calls'[f] # {})]_vars

\* a submit failed, a history entry was loaded, and the next submit is pending
C17_Witness ==
  \E f \in Features :
    /\ nSubmits[f] = 2
    /\ addCalls[f] = 0
    /\ aborted[f] = {}
    /\ loading[f]
    /\ Cardinality(calls[f]) = 1
    /\ \E c \in calls[f] : c.snap = OldMessages

\* C18: handleCancel invoked when the request of the current controller is not
\* pending (before any submit, after the submit completed, failed or was
\* canceled, and so also a second time on the same request) changes nothing of the
\* transcript, the error message, the loading flag, the pending calls and the
\* store.
C18_CancelWithoutPendingRequestIsNoOp ==
  [][\A f \in Features :
       ((\A c \in calls[f] : c.id # abortRef[f]) /\ HandleCancel(f, FALSE)) =>
         /\ messages' = messages
         /\ error' = error
         /\ loading' = loading
         /\ calls' = calls
         /\ input' = input
         /\ files' = files
         /\ histories' = histories
         /\ localStorage' = localStorage
         /\ addCalls' = addCalls]_vars

\* handleCancel was invoked after the one submit had succeeded: the signal of its
\* controller is aborted, and the exchange and its record are as success left them
C18_Witness ==
  \E f \in Features :
    /\ nSubmits[f] = 1
    /\ aborted[f] = {1}
    /\ addCalls[f] = 1
    /\ calls[f] = {}
    /\ error[f] = ""
    /\ ~loading[f]
    /\ Appended(<<Greeting(f)>>, messages[f], <<"user", "assistant">>)

\* an operation of the store is applied to feature f
MutatesFeatureNow(f) ==
  \/ \E msgs \in ApiTranscripts : AddsNow(f, msgs)
  \/ \E id \in IdsToTry(Lookup(histories, f)) : DeletesNow(f, id)
  \/ ApiClearHistory(f)

\* C19: addHistory, deleteHistory and clearHistory applied to a feature leave the
\* list of every other feature as it was: the same records in the same order.
C19_OtherFeaturesUntouched ==
  [][\A f \in Features :
       MutatesFeatureNow(f) =>
         \A g \in (Features \cup DOMAIN histories) \ {f} :
           /\ Lookup(histories', g) = Lookup(histories, g)
           /\ g \in DOMAIN histories => g \in DOMAIN histories']_vars

\* two records were added to one feature and a record was deleted from the other
C19_Witness ==
  /\ nStoreOps = 3
  /\ DOMAIN histories = Features
  /\ Len(histories["study-buddy"]) = 2
  /\ Len(histories["chat"]) = NumStored - 1
  /\ histories["chat"][1] = OldRecord(NumStored)

\* the mapping after the operation is called alone and its render is done
AfterOp(op, f, h) ==
  IF op.kind = "add" THEN AddHistory(h, f, op.msgs, now)
  ELSE IF op.kind = "delete" THEN DeleteHistory(h, f, op.id)
  ELSE ClearHistory(h, f)

\* op1 and then op2 are called on f in one event
BatchNow(f, op1, op2) ==
  /\ op1 \in BatchOps(Lookup(histories, f))
  /\ op2 \in BatchOps(Lookup(histories, f))
  /\ ApiBatch(f, op1, op2)

\* C20: two operations of the store called on a feature back to back, before any
\* render, leave the mapping that the first and then the second leave when each
\* is applied to the mapping current at its turn; two addHistory calls leave both
\* new records at the head of the list, the second first.
C20_NoLostUpdate ==
  [][\A f \in Features :
       \A op1 \in BatchOps(Lookup(histories, f)) : \A op2 \in BatchOps(Lookup(histories, f)) :
         BatchNow(f, op1, op2) =>
           /\ histories' = AfterOp(op2, f, AfterOp(op1, f, histories))
           /\ localStorage' = JSONStringify(histories')
           /\ (op1.kind = "add" /\ op2.kind = "add") =>
                LET old == Lookup(histories, f)
                    new == histories'[f]
                IN  /\ Len(new) = Min(Len(old) + 2, MaxHistories)
                    /\ new[1].messages = op2.msgs
                    /\ new[2].messages = op1.msgs
                    /\ \A i \in 3..Len(new) : new[i] = old[i - 2]]_vars

\* two addHistory calls of one event on the list of 19 records: both records are
\* in the list, which lost its oldest record
C20_Witness ==
  /\ nStoreOps = 2
  /\ "chat" \in DOMAIN histories
  /\ Len(histories["chat"]) = MaxHistories
  /\ histories["chat"][1].timestamp = histories["chat"][2].timestamp
  /\ histories["chat"][1].timestamp >= ClockStart
  /\ histories["chat"][1].messages # histories["chat"][2].messages
  /\ histories["chat"][MaxHistories] = OldRecord(2)

----------------------------------------------------------------------------
(* C21..C30 *)

\* the response is a failure response: its status is not ok, or its body is an
\* object that carries success: false
FailureResponse(ok, body) == ~ok \/ (body.kind = "object" /\ ~body.success)

\* the invocation c handles a failure response: its status, at "await fetch", or
\* its body, at "await response.json()"
FailureResponseHandledNow(f, c) ==
  /\ c \in calls[f]
  /\ \/ c.stage = "fetch" /\ HeadersArrive(f, FALSE)
     \/ /\ c.stage = "json"
        /\ \E body \in Bodies : FailureResponse(c.ok, body) /\ BodyArrives(f, body)

\* C21: on both pages a response whose status is not ok or whose body carries
\* success: false is handled as a failure: the transcript gets no ASSISTANT turn
\* and addHistory is not called.
C21_FailureResponseIsAFailure ==
  [][\A f \in Features : \A c \in calls[f] :
       FailureResponseHandledNow(f, c) =>
         /\ messages'[f] = messages[f]
         /\ addCalls' = addCalls
         /\ histories' = histories]_vars

\* C21, the part the code keeps: the chat page handles both kinds of failure
\* response as a failure, the study-buddy page the status that is not ok
C21_ChatFailureResponseIsAFailure ==
  [][\A f \in Features : \A c \in calls[f] :
       (FailureResponseHandledNow(f, c) /\ (f = "chat" \/ ~c.ok \/ c.stage = "fetch")) =>
         /\ messages'[f] = messages[f]
         /\ addCalls' = addCalls
         /\ histories' = histories]_vars

\* the detail or error string the body of a response carries, if it carries one
HasDetail(body) == Truthy(body.detail) \/ Truthy(body.error)

DetailOf(body) == IF Truthy(body.detail) THEN body.detail ELSE body.error

\* the invocation c ends with the handling of a failure response whose body is body:
\* at "await response.json()" the body was read; at "await fetch" the handler ends
\* on the status alone, whatever body the response carries
FailureResponseEndsNow(f, c, body) ==
  /\ c \in calls[f]
  /\ \A d \in calls'[f] : d.id # c.id
  /\ \/ c.stage = "fetch" /\ HeadersArrive(f, FALSE)
     \/ c.stage = "json" /\ FailureResponse(c.ok, body) /\ BodyArrives(f, body)

\* C22: a cancel surfaces the fixed canceled message; a failure of the remote call
\* surfaces a message that is not empty and is not the canceled message; and a
\* failure response whose body carries a detail or error string surfaces that
\* string.
C22_CancelAndFailureMessages ==
  [][\A f \in Features : \A c \in calls[f] :
       /\ CancelsNow(f, c) => error'[f] = MsgCanceled
       /\ FailsNow(f, c) => error'[f] \notin {"", MsgCanceled}
       /\ \A body \in Bodies :
            (FailureResponseEndsNow(f, c, body) /\ HasDetail(body)) =>
              error'[f] = DetailOf(body)]_vars

\* C22, the part the code keeps: the canceled message after a cancel, another
\* message that is not empty after what the page handles as a failure, and on the
\* chat page the detail or error string of the body when it carries one
C22_CancelAndFailureDistinguished ==
  [][\A f \in Features : \A c \in calls[f] :
       /\ CancelsNow(f, c) => error'[f] = MsgCanceled
       /\ FailsNow(f, c) => error'[f] \notin {"", MsgCanceled}
       /\ \A body \in Bodies :
            (f = "chat" /\ FailureResponseEndsNow(f, c, body) /\ HasDetail(body)) =>
              error'[f] = DetailOf(body)]_vars

\* C23: a failure of the store's write to persistent storage after a successful
\* exchange does not interrupt the conversation: the page stays mounted with the
\* exchange in its transcript and no error message is surfaced for it.
C23_StoreFailureDoesNotInterrupt ==
  [][\A f \in Features : \A body \in Bodies :
       BodyArrivesWriteFails(f, body) =>
         /\ ~crashed'
         /\ error'[f] = error[f]
         /\ Appended(messages[f], messages'[f], <<"assistant">>)]_vars

\* the request of f has been pending for 15 seconds and its warning is raised, or
\* the timer that raises it is due
WarnedAfterDelay(f) ==
  (loading[f] /\ pendingMs[f] >= LongLoadingDelay) =>
    (showLongLoadingWarning[f] \/ loadingTimeout[f] = 0)

\* C24: on both pages a request pending for 15 seconds has the warning raised;
\* the warning is shown only while a request is pending, raising it leaves the
\* request pending, and a new request starts without it.
C24_WarningAfterFifteenSeconds ==
  /\ [](\A f \in Features : WarnedAfterDelay(f))
  /\ [](\A f \in Features : showLongLoadingWarning[f] => loading[f])
  /\ [][\A f \in Features :
          /\ TimeoutFires(f) => (calls' = calls /\ loading' = loading /\ aborted' = aborted)
          /\ \A c \in calls'[f] : SubmitsNow(f, c) => ~showLongLoadingWarning'[f]]_vars

\* C24, the part the code keeps: all of it on the chat page
C24_ChatWarningAfterFifteenSeconds ==
  /\ [](WarnedAfterDelay("chat"))
  /\ [](\A f \in Features : showLongLoadingWarning[f] => loading[f])
  /\ [][\A f \in Features :
          /\ TimeoutFires(f) => (calls' = calls /\ loading' = loading /\ aborted' = aborted)
          /\ \A c \in calls'[f] : SubmitsNow(f, c) => ~showLongLoadingWarning'[f]]_vars

\* C25: a submit with staged files issues one call that carries every staged file
\* and the "request" descriptor with the submitted text, on both pages and in both
\* modes of Chat.
C25_AttachmentsAndDescriptorSent ==
  [][\A f \in Features : \A c \in calls'[f] :
       (SubmitsNow(f, c) /\ files[f] > 0) =>
         /\ c.request.files = files[f]
         /\ c.request.descriptor
         /\ c.request.text = input[f]]_vars

\* the part of C25 that holds: Chat in advanced mode sends the staged files and
\* the descriptor with the text, and every accepted submit issues exactly one call
C25_ChatAdvancedSendsFilesAndDescriptor ==
  [][/\ \A c \in calls'["chat"] :
          (SubmitsNow("chat", c) /\ files["chat"] > 0 /\ advancedMode) =>
            /\ c.request.files = files["chat"]
            /\ c.request.descriptor
            /\ c.request.text = input["chat"]
     /\ \A f \in Features :
          Cardinality(calls'[f] \ calls[f]) <= 1]_vars

\* C26: the call a submit issues carries, as history, the live transcript as it
\* was before the USER turn was appended, and the submitted text, on both pages.
C26_HistoryAndTextSent ==
  [][\A f \in Features : \A c \in calls'[f] :
       SubmitsNow(f, c) =>
         /\ c.request.hasHistory
         /\ c.request.history = messages[f]
         /\ c.request.text = input[f]]_vars

\* the part of C26 that holds: the call of the chat page carries the transcript
\* before the USER turn and the submitted text
C26_ChatHistoryAndTextSent ==
  [][\A c \in calls'["chat"] :
       SubmitsNow("chat", c) =>
         /\ c.request.hasHistory
         /\ c.request.history = messages["chat"]
         /\ Append(c.request.history, c.updated[Len(c.updated)]) = messages'["chat"]
         /\ c.request.text = input["chat"]]_vars

\* the USER turn the submit c appended
UserTurnOf(c) == c.updated[Len(c.updated)]

\* s ends with t
EndsWith(s, t) == Len(t) <= Len(s) /\ SubSeq(s, Len(s) - Len(t) + 1, Len(s)) = t

\* C27: the USER turn a submit appends has the submitted text as its content
\* whenever the text is not empty.
C27_UserTurnIsTheSubmittedText ==
  [][\A f \in Features : \A c \in calls'[f] :
       (SubmitsNow(f, c) /\ input[f] # "") => UserTurnOf(c).content = input[f]]_vars

\* the part of C27 that holds: without staged files the content is the submitted
\* text; with staged files the content starts with the count of the files, and on
\* the chat page it ends with the submitted text
C27_UserTurnWithoutFilesIsTheText ==
  [][\A f \in Features : \A c \in calls'[f] :
       SubmitsNow(f, c) =>
         /\ UserTurnOf(c).role = "user"
         /\ files[f] = 0 => UserTurnOf(c).content = input[f]
         /\ files[f] > 0 => SubSeq(UserTurnOf(c).content, 1, 2) = "[" \o ToString(files[f])
         /\ (files[f] > 0 /\ f = "chat") => EndsWith(UserTurnOf(c).content, input[f])]_vars

\* the request c is pending and a click on a history entry replaced the live
\* transcript since c was submitted (by C3, nothing else changes the transcript
\* while a request is pending)
LoadedWhilePending(f, c) == c \in calls[f] /\ messages[f] # c.updated

\* C28: when a history entry was loaded while a request was pending, the live
\* transcript is still the loaded one after the request succeeded, failed or was
\* canceled.
C28_LoadedTranscriptSurvivesTheRequest ==
  [][\A f \in Features : \A c \in calls[f] :
       (LoadedWhilePending(f, c)
          /\ (SucceedsNow(f, c) \/ RemoteCallFailsNow(f, c) \/ CancelsNow(f, c)))
         => messages'[f] = messages[f]]_vars

\* the part of C28 that holds: a failure keeps the loaded transcript; a success
\* replaces it with the transcript of the submit and the ASSISTANT turn, a cancel
\* with the transcript before the submit (the loaded one survives only where it
\* equals the replacement)
C28_OnlyFailureKeepsTheLoadedTranscript ==
  [][\A f \in Features : \A c \in calls[f] :
       LoadedWhilePending(f, c) =>
         /\ RemoteCallFailsNow(f, c) => messages'[f] = messages[f]
         /\ SucceedsNow(f, c) => Appended(c.updated, messages'[f], <<"assistant">>)
         /\ CancelsNow(f, c) => messages'[f] = c.snap]_vars

\* k files are chosen in the file dialog of the page of f
SelectsNow(f, k) == SelectFiles(f, k, TRUE)

\* C29: the chat page, the study-buddy page and the fact-check page never hold
\* more than 10 staged files, and choosing files that would take the list above
\* 10 leaves the list as it was.
C29_AtMostTenStagedFiles ==
  /\ [](/\ \A f \in Features : files[f] <= MaxStagedFiles
        /\ factCheck.files <= MaxStagedFiles)
  /\ [][/\ \A f \in Features : \A k \in 1..MaxSelected :
             (SelectsNow(f, k) /\ files[f] + k > MaxStagedFiles) => files'[f] = files[f]
        /\ (FactCheckAddFile /\ factCheck.files + 1 > MaxStagedFiles)
             => factCheck'.files = factCheck.files]_vars

\* with 9 files staged on the chat page, two more were chosen and refused
C29_Witness ==
  /\ files["chat"] = MaxStagedFiles - 1
  /\ error["chat"] = MsgMaxFiles

\* the blob holds a mapping
ValidMapping(blob) == ~JSONParseThrows(blob) /\ JSONParse(blob) # Null

\* C30: the provider reads the blob once, at mount; it writes nothing while it is
\* not hydrated, so every write follows the read; and the mount leaves a blob that
\* holds a mapping as it is, with the mapping in memory.
C30_NoWriteBeforeHydration ==
  /\ [](/\ storageCalls.unhydratedWrites = <<>>
        /\ storageCalls.getItem = (IF isHydrated THEN 1 ELSE 0))
  /\ [][/\ localStorage' # localStorage => (isHydrated' /\ storageCalls'.getItem = 1)
        /\ (Hydrate /\ ValidMapping(localStorage)) =>
             /\ histories' = JSONParse(localStorage)
             /\ localStorage' = localStorage]_vars

\* the provider is mounted on a blob of stored conversations: it read the blob
\* once, and the blob and the mapping in memory are the stored conversations
C30_Witness ==
  /\ isHydrated
  /\ storageCalls = [getItem |-> 1, unhydratedWrites |-> <<>>]
  /\ histories = StoredHistories(NumStored)
  /\ localStorage = JSONStringify(StoredHistories(NumStored))

====
